---- MODULE Spec2Model ----
(***************************************************************************)
(* Model of the URL summarizer (src/functions/summarize.js).               *)
(*                                                                         *)
(* The file holds two entry points that implement the same workflow:       *)
(*   - the function handler  (exports.handler, lines 78-233), and          *)
(*   - the long-running HTTP server (http.createServer, lines 342-481).    *)
(* Both use the helper makeRequest (lines 6-76 and 269-339) for the two    *)
(* outbound calls: the content fetch and the summarization call.           *)
(*                                                                         *)
(* One behaviour of Spec is the life of one request: the entry action, the *)
(* continuation after the awaited content fetch, and the continuation      *)
(* after the awaited summarization call.  SpecNormalize exercises the      *)
(* content normalizer alone on every short text over a small alphabet.     *)
(***************************************************************************)
EXTENDS Integers, Sequences, FiniteSets, TLC

VARIABLES
    variant,        \* "function" (exports.handler) or "server" (createServer)
    apiKeySet,      \* process.env.GEMINI_API_KEY is truthy
    pc,             \* "idle", "awaitFetch", "awaitSummary", "responded", "rejected"
    request,        \* the inbound request: [method, path, body]
    targetUrl,      \* const { url: targetUrl } = requestData
    fetchCalls,     \* outbound content fetches issued for this request
    summaryCalls,   \* outbound summarization calls issued for this request
    fetchRaw,       \* what the target host answered to the content fetch
    summaryRaw,     \* what the summarization API answered
    mainContent,    \* the text put into the prompt
    sentPrompt,     \* contents[0].parts[0].text of the summarization call
    responses,      \* the responses produced for this request, in order
    nIn,            \* normalizer harness: the raw text
    nLimit,         \* normalizer harness: the truncation threshold
    nOnce,          \* normalizer harness: the text normalized once
    nTwice,         \* normalizer harness: the text normalized twice
    nStep           \* normalizer harness: number of passes applied

vars == <<variant, apiKeySet, pc, request, targetUrl, fetchCalls, summaryCalls,
          fetchRaw, summaryRaw, mainContent, sentPrompt, responses,
          nIn, nLimit, nOnce, nTwice, nStep>>

reqVars == <<variant, apiKeySet, pc, request, targetUrl, fetchCalls, summaryCalls,
             fetchRaw, summaryRaw, mainContent, sentPrompt, responses>>

normVars == <<nIn, nLimit, nOnce, nTwice, nStep>>

----------------------------------------------------------------------------
(* Bounds of the normalizer harness.                                       *)

\* longest raw text the harness normalizes
MaxLen == 5

\* largest truncation threshold the harness tries (the code's is 10000)
MaxLimit == 3

\* how far below and above the code's threshold the lengths of the long
\* texts of the truncation harness range
MaxExcess == 8

\* the characters of the harness texts: tag delimiters, two kinds of
\* whitespace, and an ordinary character
Alphabet == {"<", ">", " ", "\n", "a"}

----------------------------------------------------------------------------
(* The content normalizer (function handler, lines 122-135).               *)

\* the characters matched by \s and removed by trim()
IsSpace(c) == c \in {" ", "\n", "\t", "\r"}

\* index of the first ">" at or after position i, 0 when there is none
RECURSIVE FirstGt(_, _)
FirstGt(s, i) ==
    IF i > Len(s) THEN 0
    ELSE IF s[i] = ">" THEN i
    ELSE FirstGt(s, i + 1)

\* mainContent.replace(/<[^>]*>/g, ' '), scanning from position i
RECURSIVE StripTagsFrom(_, _)
StripTagsFrom(s, i) ==
    IF i > Len(s) THEN << >>
    ELSE IF s[i] = "<" /\ FirstGt(s, i + 1) # 0
         THEN <<" ">> \o StripTagsFrom(s, FirstGt(s, i + 1) + 1)
         ELSE <<s[i]>> \o StripTagsFrom(s, i + 1)

StripTags(s) == StripTagsFrom(s, 1)

\* mainContent.replace(/\s+/g, ' '), scanning from position i
RECURSIVE CollapseFrom(_, _)
CollapseFrom(s, i) ==
    IF i > Len(s) THEN << >>
    ELSE IF IsSpace(s[i])
         THEN IF i > 1 /\ IsSpace(s[i - 1])
              THEN CollapseFrom(s, i + 1)
              ELSE <<" ">> \o CollapseFrom(s, i + 1)
         ELSE <<s[i]>> \o CollapseFrom(s, i + 1)

CollapseWhitespace(s) == CollapseFrom(s, 1)

RECURSIVE TrimLeft(_)
TrimLeft(s) ==
    IF s # << >> /\ IsSpace(Head(s)) THEN TrimLeft(Tail(s)) ELSE s

RECURSIVE TrimRight(_)
TrimRight(s) ==
    IF s # << >> /\ IsSpace(s[Len(s)])
    THEN TrimRight(SubSeq(s, 1, Len(s) - 1))
    ELSE s

\* String.prototype.trim
Trim(s) == TrimRight(TrimLeft(s))

\* the literal appended to a truncated text
Marker == <<".", ".", ".">>

\* s.substring(0, n): the first n characters, all of s when it is shorter
Substring(s, n) == SubSeq(s, 1, IF n < Len(s) THEN n ELSE Len(s))

\* a marker appended whether or not the text was cut
TruncateAlways(s, limit) == Substring(s, limit) \o Marker

\* a text of exactly limit characters cut as well
TruncateAtOrAbove(s, limit) ==
    IF Len(s) >= limit THEN Substring(s, limit) \o Marker ELSE s

\* if (mainContent.length > limit) mainContent = substring(0, limit) + '...'
Truncate(s, limit) ==
    IF Len(s) > limit THEN Substring(s, limit) \o Marker ELSE s

\* lines 126-135 with the threshold as a parameter
NormalizeWith(raw, limit) ==
    Truncate(Trim(CollapseWhitespace(StripTags(raw))), limit)

\* the threshold of line 132
MaxContentLength == 10000

\* the normalizer of the function handler
Normalize(raw) == NormalizeWith(raw, MaxContentLength)

----------------------------------------------------------------------------
(* JavaScript values that reach the handlers.                              *)

\* the value of a field that is absent; JSON.stringify omits such fields
Undefined == "<undefined>"

JsUndefined == [t |-> "undefined", v |-> ""]
JsNull == [t |-> "null", v |-> ""]
JsStr(s) == [t |-> "string", v |-> s]
JsNum(n) == [t |-> "number", v |-> n]

\* !x
Falsy(x) ==
    \/ x.t \in {"undefined", "null"}
    \/ x.t = "string" /\ x.v = ""
    \/ x.t = "number" /\ x.v = "0"

\* if (!targetUrl), lines 109 and 395
UrlMissing(u) == Falsy(u)

\* JSON.stringify of an object literal: fields whose value is undefined are
\* dropped
JsonObject(f) == [k \in {x \in DOMAIN f : f[x] # Undefined} |-> f[k]]

EmptyObject == [k \in {} |-> ""]

----------------------------------------------------------------------------
(* The inbound requests.                                                   *)

Methods == {"GET", "POST", "OPTIONS", "PUT"}

Paths == {"/", "/summarize", "/other"}

\* the function handler has one route
FnPath == "/summarize"

UrlValues ==
    { JsUndefined, JsNull, JsStr(""), JsNum("0"), JsNum("5"),
      JsStr("http://example.com/page-with-html"), JsStr("https://example.org/") }

\* a request body by what JSON.parse makes of it: a SyntaxError, null, a
\* value that is not an object (a number, a string), or an object whose url
\* field is one of UrlValues
ReqBodies ==
    {[parse |-> p, url |-> JsUndefined] : p \in {"SyntaxError", "null", "scalar"}}
    \cup {[parse |-> "object", url |-> u] : u \in UrlValues}

NoRequest == [method |-> "", path |-> "", body |-> [parse |-> "none", url |-> JsUndefined]]

----------------------------------------------------------------------------
(* What an upstream host can answer.                                       *)

NoJson == [t |-> "SyntaxError", shape |-> "none", text |-> ""]

\* the example page of the specification
HelloChars ==
    <<"<", "h", "t", "m", "l", ">", "<", "b", "o", "d", "y", ">", "H",
    "e", "l", "l", "o", " ", "<", "b", ">", "W", "o", "r", "l", "d", "<",
    "/", "b", ">", "<", "/", "b", "o", "d", "y", ">", "<", "/", "h", "t",
    "m", "l", ">">>

\* "[object Object]", what toString() gives for a parsed JSON object
ObjectObjectChars ==
    <<"[", "o", "b", "j", "e", "c", "t", " ", "O", "b", "j", "e", "c",
    "t", "]">>

\* sample bodies: the text as a label (used where the raw text is echoed),
\* its characters (used where it is normalized), and what JSON.parse makes
\* of it
UpstreamBodies ==
    { [label |-> "hello.html", chars |-> HelloChars, json |-> NoJson],
      [label |-> "ragged.txt",
       chars |-> <<" ", "a", "\n", " ", "<", "b", ">", ">", "<", "c">>,
       json |-> NoJson],
      [label |-> "null", chars |-> <<"n", "u", "l", "l">>,
       json |-> [t |-> "null", shape |-> "none", text |-> ""]],
      [label |-> "{}", chars |-> <<"{", "}">>,
       json |-> [t |-> "object", shape |-> "none", text |-> ""]],
      [label |-> "{candidates:[{content:{parts:[{}]}}]}",
       chars |-> <<"{", "c", "}">>,
       json |-> [t |-> "object", shape |-> "notext", text |-> ""]],
      [label |-> "{candidates:[{content:{parts:[{text:'A page.'}]}}]}",
       chars |-> <<"{", "t", "}">>,
       json |-> [t |-> "object", shape |-> "text", text |-> "A page."]] }

EmptyBody == [label |-> "", chars |-> << >>, json |-> NoJson]

Statuses == {200, 204, 301, 404, 500}

ContentTypes == {"text/html", "application/json; charset=utf-8"}

\* an answer is an HTTP response or a network-level error (DNS failure,
\* connection refused)
RawAnswers ==
    {[kind |-> "response", status |-> s, ctype |-> c, body |-> b, message |-> ""] :
        s \in Statuses, c \in ContentTypes, b \in UpstreamBodies}
    \cup {[kind |-> "error", status |-> 0, ctype |-> "", body |-> EmptyBody,
           message |-> m] : m \in {"getaddrinfo ENOTFOUND", "connect ECONNREFUSED"}}

NoAnswer == [kind |-> "none", status |-> 0, ctype |-> "", body |-> EmptyBody, message |-> ""]

----------------------------------------------------------------------------
(* makeRequest (lines 6-76 and 269-339).                                   *)

\* every status counts as success
AnyStatusSucceeds(status) == TRUE

\* res.statusCode >= 200 && res.statusCode < 300
IsSuccessStatus(status) == status >= 200 /\ status < 300

\* contentType.includes('application/json')
IsJsonContentType(ctype) == ctype \in {"application/json", "application/json; charset=utf-8"}

NoError == [kind |-> "none", status |-> 0, data |-> "", message |-> Undefined, stack |-> Undefined]

\* an Error thrown by the runtime (SyntaxError, TypeError)
Exception(msg) ==
    [kind |-> "exception", status |-> 0, data |-> "", message |-> msg, stack |-> "stack"]

NoData == [t |-> "none", body |-> EmptyBody]

\* the data of a resolved request: the parsed body when the content type is
\* JSON and the body parses, the raw text otherwise (lines 28-50)
ResolvedData(raw) ==
    IF IsJsonContentType(raw.ctype) /\ raw.body.json.t # "SyntaxError"
    THEN [t |-> raw.body.json.t, body |-> raw.body]
    ELSE [t |-> "string", body |-> raw.body]

\* how the promise of makeRequest settles on an upstream answer
MakeRequest(raw) ==
    IF raw.kind = "error"
    THEN [settled |-> "rejected", data |-> NoData,
          error |-> [kind |-> "request", status |-> 0, data |-> "",
                     message |-> raw.message, stack |-> Undefined]]
    ELSE IF IsSuccessStatus(raw.status)
    THEN [settled |-> "resolved", data |-> ResolvedData(raw), error |-> NoError]
    ELSE [settled |-> "rejected", data |-> NoData,
          error |-> [kind |-> "response", status |-> raw.status,
                     data |-> raw.body.label,
                     message |-> Undefined, stack |-> Undefined]]

\* url.parse(requestUrl) throws on an argument that is not a string, inside
\* the promise executor, so the promise rejects before any request is made
UrlParseThrows(u) == u.t # "string"

\* content.toString(): a TypeError on null
ToStringThrows(data) == data.t = "null"

ToStringChars(data) ==
    IF data.t = "object" THEN ObjectObjectChars ELSE data.body.chars

\* geminiResponse.data.candidates[0].content.parts[0].text throws a
\* TypeError unless data is an object with that nesting
CandidateThrows(data) ==
    ~(data.t = "object" /\ data.body.json.shape \in {"notext", "text"})

CandidateText(data) ==
    IF data.body.json.shape = "text" THEN data.body.json.text ELSE Undefined

----------------------------------------------------------------------------
(* Responses.                                                              *)

\* the headers object of the function handler, lines 80-84
FnCorsHeaders ==
    { <<"Access-Control-Allow-Origin", "*">>,
      <<"Access-Control-Allow-Headers", "Content-Type">>,
      <<"Access-Control-Allow-Methods", "POST, OPTIONS">> }

\* only the server's own origin allowed
SrvSameOriginHeaders ==
    { <<"Access-Control-Allow-Origin", "http://localhost:3000">>,
      <<"Access-Control-Allow-Methods", "GET, POST, OPTIONS">>,
      <<"Access-Control-Allow-Headers", "Content-Type">> }

\* the headers set on every response of the server, lines 344-346
SrvCorsHeaders ==
    { <<"Access-Control-Allow-Origin", "*">>,
      <<"Access-Control-Allow-Methods", "GET, POST, OPTIONS">>,
      <<"Access-Control-Allow-Headers", "Content-Type">> }

JsonContentType == <<"Content-Type", "application/json">>

\* return { statusCode, headers, body: JSON.stringify(...) }
FnReply(status, json) ==
    [status |-> status, headers |-> FnCorsHeaders, empty |-> FALSE, json |-> json]

\* return { statusCode: 204, headers, body: '' }, lines 88-92
FnEmptyReply(status) ==
    [status |-> status, headers |-> FnCorsHeaders, empty |-> TRUE, json |-> EmptyObject]

\* the return of lines 181-191: headers plus Content-Type
FnSuccessReply(status, json) ==
    [status |-> status, headers |-> FnCorsHeaders \cup {JsonContentType},
     empty |-> FALSE, json |-> json]

\* res.statusCode = ...; res.setHeader('Content-Type', ...); res.end(JSON...)
SrvReply(status, json) ==
    [status |-> status, headers |-> SrvCorsHeaders \cup {JsonContentType},
     empty |-> FALSE, json |-> json]

\* res.statusCode = 204; res.end(), lines 350-351
SrvEmptyReply(status) ==
    [status |-> status, headers |-> SrvCorsHeaders, empty |-> TRUE, json |-> EmptyObject]

\* the fixed instruction of the prompt, as one unit
Instruction == <<"Summarize the following web page content in one concise sentence:\n\n">>

\* `Summarize ...:\n\n${mainContent}`, lines 152 and 426
BuildPrompt(content) == Instruction \o content

\* the summary returned without the url it belongs to
SuccessBodyWithoutUrl(u, summary) == JsonObject([summary |-> summary])

\* the body on success, lines 187-190 and 444-447
SuccessBody(u, summary) == JsonObject([url |-> u.v, summary |-> summary])

\* error.response.status || 500, line 201
FnUpstreamStatus(error) == IF error.status # 0 THEN error.status ELSE 500

\* the catch block of the function handler, lines 193-232, past the logging
\* of line 195
FnCatchReply(error) ==
    IF error.kind = "response"
    THEN FnReply(FnUpstreamStatus(error),
               JsonObject([error |-> "Error processing request",
                           details |-> error.data,
                           message |-> error.message,
                           stack |-> error.stack]))
    ELSE IF error.kind = "request"
    THEN FnReply(500,
               JsonObject([error |-> "Error making request",
                           details |-> "No response received",
                           message |-> error.message,
                           stack |-> error.stack]))
    ELSE FnReply(500,
               JsonObject([error |-> "Unexpected error",
                           message |-> error.message,
                           stack |-> error.stack]))

\* JSON.stringify(error, null, 2) of line 195.  A rejection for a
\* network-level failure carries the ClientRequest (request: req, line 65).
\* Once a socket is assigned to it, req.socket._httpMessage is req itself and
\* JSON.stringify throws "Converting circular structure to JSON"; before a
\* socket is assigned it does not.  Both outcomes are kept.
LoggingMayThrow(error) ==
    IF error.kind = "request" THEN {TRUE, FALSE} ELSE {FALSE}

\* the catch block of the server, lines 449-473
SrvCatchReply(error) ==
    IF error.kind = "response"
    THEN SrvReply(500, JsonObject([error |-> "Error processing request",
                                details |-> error.data]))
    ELSE IF error.kind = "request"
    THEN SrvReply(500, JsonObject([error |-> "No response received from server",
                                details |-> error.message]))
    ELSE SrvReply(500, JsonObject([error |-> "Error setting up request",
                                details |-> error.message]))

\* the handler returns or ends the response
Respond(r) ==
    /\ pc' = "responded"
    /\ responses' = Append(responses, r)

\* the async handler rejects: no response is produced
Reject ==
    /\ pc' = "rejected"
    /\ UNCHANGED responses

\* control reaches the catch block of the function handler
FnCatch(error) ==
    \E throws \in LoggingMayThrow(error) :
        IF throws THEN Reject ELSE Respond(FnCatchReply(error))

\* control reaches the catch block of the server
SrvCatch(error) == Respond(SrvCatchReply(error))

----------------------------------------------------------------------------
(* The function handler, exports.handler (lines 78-233).                   *)

\* if (!geminiApiKey), line 143
KeyCheckSkipped(keySet) == FALSE

KeyMissing(keySet) == ~keySet

\* lines 78-119: from the invocation to the await of the content fetch
FnInvoke ==
    /\ pc = "idle"
    /\ variant = "function"
    /\ \E m \in Methods, b \in ReqBodies :
        /\ request' = [method |-> m, path |-> FnPath, body |-> b]
        /\ IF m = "OPTIONS"
           THEN /\ Respond(FnEmptyReply(204))
                /\ UNCHANGED <<targetUrl, fetchCalls>>
           ELSE IF m # "POST"
           THEN /\ Respond(FnReply(405, JsonObject([error |-> "Method not allowed"])))
                /\ UNCHANGED <<targetUrl, fetchCalls>>
           ELSE IF b.parse = "SyntaxError"
           THEN /\ FnCatch(Exception("Unexpected token in JSON"))
                /\ UNCHANGED <<targetUrl, fetchCalls>>
           ELSE IF b.parse = "null"
           THEN /\ FnCatch(Exception("Cannot destructure property 'url' of null"))
                /\ UNCHANGED <<targetUrl, fetchCalls>>
           ELSE /\ targetUrl' = b.url
                /\ IF UrlMissing(b.url)
                   THEN /\ Respond(FnReply(400, JsonObject([error |-> "URL is required"])))
                        /\ UNCHANGED fetchCalls
                   ELSE IF UrlParseThrows(b.url)
                   THEN /\ FnCatch(Exception("The \"url\" argument must be of type string"))
                        /\ UNCHANGED fetchCalls
                   ELSE /\ fetchCalls' = fetchCalls + 1
                        /\ pc' = "awaitFetch"
                        /\ UNCHANGED responses
    /\ UNCHANGED <<variant, apiKeySet, summaryCalls, fetchRaw, summaryRaw,
                   mainContent, sentPrompt>>
    /\ UNCHANGED normVars

\* lines 119-175: from the settling of the content fetch to the await of the
\* summarization call
FnFetchDone ==
    /\ pc = "awaitFetch"
    /\ variant = "function"
    /\ \E raw \in RawAnswers :
        /\ fetchRaw' = raw
        /\ LET r == MakeRequest(raw) IN
           IF r.settled = "rejected"
           THEN /\ FnCatch(r.error)
                /\ UNCHANGED <<mainContent, sentPrompt, summaryCalls>>
           ELSE IF ToStringThrows(r.data)
           THEN /\ FnCatch(Exception("Cannot read properties of null (reading 'toString')"))
                /\ UNCHANGED <<mainContent, sentPrompt, summaryCalls>>
           ELSE /\ mainContent' = Normalize(ToStringChars(r.data))
                /\ IF KeyMissing(apiKeySet)
                   THEN /\ Respond(FnReply(500, JsonObject(
                                [error |-> "GEMINI_API_KEY environment variable is not set"])))
                        /\ UNCHANGED <<sentPrompt, summaryCalls>>
                   ELSE /\ sentPrompt' = BuildPrompt(mainContent')
                        /\ summaryCalls' = summaryCalls + 1
                        /\ pc' = "awaitSummary"
                        /\ UNCHANGED responses
    /\ UNCHANGED <<variant, apiKeySet, request, targetUrl, fetchCalls, summaryRaw>>
    /\ UNCHANGED normVars

\* lines 175-191: from the settling of the summarization call to the return
FnSummaryDone ==
    /\ pc = "awaitSummary"
    /\ variant = "function"
    /\ \E raw \in RawAnswers :
        /\ summaryRaw' = raw
        /\ LET r == MakeRequest(raw) IN
           IF r.settled = "rejected"
           THEN FnCatch(r.error)
           ELSE IF CandidateThrows(r.data)
           THEN FnCatch(Exception("Cannot read properties of undefined (reading '0')"))
           ELSE Respond(FnSuccessReply(200, SuccessBody(targetUrl, CandidateText(r.data))))
    /\ UNCHANGED <<variant, apiKeySet, request, targetUrl, fetchCalls, summaryCalls,
                   fetchRaw, mainContent, sentPrompt>>
    /\ UNCHANGED normVars

----------------------------------------------------------------------------
(* The server, http.createServer (lines 342-481).                          *)

\* lines 342-404: from the arrival of the request (its body read to the end)
\* to the await of the content fetch
SrvRequest ==
    /\ pc = "idle"
    /\ variant = "server"
    /\ \E m \in Methods, p \in Paths, b \in ReqBodies :
        /\ request' = [method |-> m, path |-> p, body |-> b]
        /\ IF m = "OPTIONS"
           THEN /\ Respond(SrvEmptyReply(204))
                /\ UNCHANGED <<targetUrl, fetchCalls>>
           ELSE IF p = "/" /\ m = "GET"
           THEN /\ Respond(SrvReply(200, JsonObject(
                        [message |-> "Welcome to the URL Summarizer API",
                         endpoints |-> "POST /summarize"])))
                /\ UNCHANGED <<targetUrl, fetchCalls>>
           ELSE IF ~(p = "/summarize" /\ m = "POST")
           THEN /\ Respond(SrvReply(404, JsonObject([error |-> "Not found"])))
                /\ UNCHANGED <<targetUrl, fetchCalls>>
           ELSE IF b.parse = "SyntaxError"
           THEN /\ Respond(SrvReply(400, JsonObject([error |-> "Invalid JSON in request body"])))
                /\ UNCHANGED <<targetUrl, fetchCalls>>
           ELSE IF b.parse = "null"
           THEN /\ SrvCatch(Exception("Cannot destructure property 'url' of null"))
                /\ UNCHANGED <<targetUrl, fetchCalls>>
           ELSE /\ targetUrl' = b.url
                /\ IF UrlMissing(b.url)
                   THEN /\ Respond(SrvReply(400, JsonObject([error |-> "URL is required"])))
                        /\ UNCHANGED fetchCalls
                   ELSE IF UrlParseThrows(b.url)
                   THEN /\ SrvCatch(Exception("The \"url\" argument must be of type string"))
                        /\ UNCHANGED fetchCalls
                   ELSE /\ fetchCalls' = fetchCalls + 1
                        /\ pc' = "awaitFetch"
                        /\ UNCHANGED responses
    /\ UNCHANGED <<variant, apiKeySet, summaryCalls, fetchRaw, summaryRaw,
                   mainContent, sentPrompt>>
    /\ UNCHANGED normVars

\* lines 404-436: from the settling of the content fetch to the await of the
\* summarization call; the content is passed on as fetched (line 408)
SrvFetchDone ==
    /\ pc = "awaitFetch"
    /\ variant = "server"
    /\ \E raw \in RawAnswers :
        /\ fetchRaw' = raw
        /\ LET r == MakeRequest(raw) IN
           IF r.settled = "rejected"
           THEN /\ SrvCatch(r.error)
                /\ UNCHANGED <<mainContent, sentPrompt, summaryCalls>>
           ELSE IF ToStringThrows(r.data)
           THEN /\ SrvCatch(Exception("Cannot read properties of null (reading 'toString')"))
                /\ UNCHANGED <<mainContent, sentPrompt, summaryCalls>>
           ELSE /\ mainContent' = ToStringChars(r.data)
                /\ sentPrompt' = BuildPrompt(mainContent')
                /\ summaryCalls' = summaryCalls + 1
                /\ pc' = "awaitSummary"
                /\ UNCHANGED responses
    /\ UNCHANGED <<variant, apiKeySet, request, targetUrl, fetchCalls, summaryRaw>>
    /\ UNCHANGED normVars

\* lines 436-447: from the settling of the summarization call to the end of
\* the response
SrvSummaryDone ==
    /\ pc = "awaitSummary"
    /\ variant = "server"
    /\ \E raw \in RawAnswers :
        /\ summaryRaw' = raw
        /\ LET r == MakeRequest(raw) IN
           IF r.settled = "rejected"
           THEN SrvCatch(r.error)
           ELSE IF CandidateThrows(r.data)
           THEN SrvCatch(Exception("Cannot read properties of undefined (reading '0')"))
           ELSE Respond(SrvReply(200, SuccessBody(targetUrl, CandidateText(r.data))))
    /\ UNCHANGED <<variant, apiKeySet, request, targetUrl, fetchCalls, summaryCalls,
                   fetchRaw, mainContent, sentPrompt>>
    /\ UNCHANGED normVars

----------------------------------------------------------------------------
(* One request, under either entry point.                                  *)

NormIdle ==
    /\ nIn = << >>
    /\ nLimit = 0
    /\ nOnce = << >>
    /\ nTwice = << >>
    /\ nStep = 0

ReqIdle ==
    /\ pc = "idle"
    /\ request = NoRequest
    /\ targetUrl = JsUndefined
    /\ fetchCalls = 0
    /\ summaryCalls = 0
    /\ fetchRaw = NoAnswer
    /\ summaryRaw = NoAnswer
    /\ mainContent = << >>
    /\ sentPrompt = << >>
    /\ responses = << >>

\* the function handler runs with or without the credential; the server
\* only starts serving with GEMINI_API_KEY set (lines 259-266)
Init ==
    /\ variant \in {"function", "server"}
    /\ apiKeySet \in (IF variant = "server" THEN {TRUE} ELSE BOOLEAN)
    /\ ReqIdle
    /\ NormIdle

Next ==
    \/ FnInvoke
    \/ FnFetchDone
    \/ FnSummaryDone
    \/ SrvRequest
    \/ SrvFetchDone
    \/ SrvSummaryDone

Spec == Init /\ [][Next]_vars

----------------------------------------------------------------------------
(* The normalizer alone.                                                   *)

\* every text of at most MaxLen characters over Alphabet
Texts == UNION {[1..n -> Alphabet] : n \in 0..MaxLen}

InitNormalize ==
    /\ variant = "function"
    /\ apiKeySet = TRUE
    /\ ReqIdle
    /\ nIn \in Texts
    /\ nLimit \in 0..MaxLimit
    /\ nOnce = << >>
    /\ nTwice = << >>
    /\ nStep = 0

\* the normalizer applied to the raw text
NormalizeFirst ==
    /\ nStep = 0
    /\ nOnce' = NormalizeWith(nIn, nLimit)
    /\ nStep' = 1
    /\ UNCHANGED <<nIn, nLimit, nTwice>>
    /\ UNCHANGED reqVars

\* the normalizer applied to its own output
NormalizeAgain ==
    /\ nStep = 1
    /\ nTwice' = NormalizeWith(nOnce, nLimit)
    /\ nStep' = 2
    /\ UNCHANGED <<nIn, nLimit, nOnce>>
    /\ UNCHANGED reqVars

NextNormalize ==
    \/ NormalizeFirst
    \/ NormalizeAgain

SpecNormalize == InitNormalize /\ [][NextNormalize]_vars

----------------------------------------------------------------------------
(* The truncation step alone (lines 131-135), at the code's threshold.     *)
(* Its input is text that is already stripped, collapsed and trimmed.      *)

\* the lengths tried: short texts, and texts around the threshold
LongLengths ==
    (0..MaxExcess)
    \cup ((MaxContentLength - MaxExcess)..(MaxContentLength + MaxExcess))

\* a text of n characters cycling through "a", "b", "." from offset k, so
\* that texts differ at every position from their shifts; with k = 3 a text
\* longer than the threshold has a space as its last kept character
Fill(n, k) ==
    [i \in 1..n |->
        IF k = 3 /\ n > MaxContentLength /\ i = MaxContentLength THEN " "
        ELSE IF (i + k) % 3 = 0 THEN "a"
        ELSE IF (i + k) % 3 = 1 THEN "b"
        ELSE "."]

LongTexts == {Fill(n, k) : n \in LongLengths, k \in 0..3}

InitTruncate ==
    /\ variant = "function"
    /\ apiKeySet = TRUE
    /\ ReqIdle
    /\ nIn \in LongTexts
    /\ nLimit = MaxContentLength
    /\ nOnce = << >>
    /\ nTwice = << >>
    /\ nStep = 0

\* lines 132-135 applied to the text
TruncateStep ==
    /\ nStep = 0
    /\ nOnce' = Truncate(nIn, nLimit)
    /\ nStep' = 1
    /\ UNCHANGED <<nIn, nLimit, nTwice>>
    /\ UNCHANGED reqVars

NextTruncate == TruncateStep

SpecTruncate == InitTruncate /\ [][NextTruncate]_vars

----------------------------------------------------------------------------
(* Vocabulary of the properties.                                           *)

\* the handler has finished, by responding or by rejecting
Done == pc \in {"responded", "rejected"}

\* the request is a POST to the summarize route
IsSummarizePost ==
    /\ request.method = "POST"
    /\ variant = "server" => request.path = "/summarize"

\* the request body parsed, and the parsed value has no url field or an
\* empty url
UrlAbsentOrEmpty ==
    \/ request.body.parse \in {"null", "scalar"}
    \/ request.body.parse = "object" /\ request.body.url \in {JsUndefined, JsStr("")}

\* the request body is an object whose url is a non-empty string
UrlNonEmpty ==
    /\ request.body.parse = "object"
    /\ request.body.url.t = "string"
    /\ request.body.url.v # ""

NoOutboundCall == fetchCalls = 0 /\ summaryCalls = 0

AllowsAnyOrigin(r) == <<"Access-Control-Allow-Origin", "*">> \in r.headers

\* a response that carries a JSON error object and no summary
IsErrorReply(r) ==
    /\ ~r.empty
    /\ "error" \in DOMAIN r.json
    /\ "summary" \notin DOMAIN r.json

\* an answer with a status in 200..299
Answered2xx(raw) == raw.kind = "response" /\ raw.status >= 200 /\ raw.status < 300

\* an answer that is an HTTP-level failure
AnsweredHttpFailure(raw) == raw.kind = "response" /\ ~Answered2xx(raw)

\* no answer at all: a network-level failure
NetworkFailure(raw) == raw.kind = "error"

\* the summarization API answered 2xx with JSON that has a first candidate
\* text
AnsweredWithCandidateText(raw) ==
    /\ Answered2xx(raw)
    /\ raw.ctype \in {"application/json", "application/json; charset=utf-8"}
    /\ raw.body.json.t = "object"
    /\ raw.body.json.shape = "text"

\* the summarization API answered 2xx without the candidates nesting
AnsweredWithoutCandidates(raw) ==
    /\ Answered2xx(raw)
    /\ \/ raw.ctype \notin {"application/json", "application/json; charset=utf-8"}
       \/ raw.body.json.t # "object"
       \/ raw.body.json.shape = "none"

----------------------------------------------------------------------------
(* C1.  A POST whose parsed JSON body has no url field, or an empty url,   *)
(* is answered 400 with an error payload, and no outbound call is made.    *)
(* Fails: a body that parses to null makes the destructuring of line 107   *)
(* (393) throw, and the catch block answers 500.                           *)
C1_MissingUrlIs400 ==
    (Done /\ IsSummarizePost /\ UrlAbsentOrEmpty) =>
        /\ pc = "responded"
        /\ Len(responses) = 1
        /\ responses[1].status = 400
        /\ IsErrorReply(responses[1])
        /\ NoOutboundCall

(* C2.  When the content fetch answers 2xx and the summarization call      *)
(* answers 2xx with a first candidate text, the response is 200 and its     *)
(* body is exactly {url, summary}: the url as the caller sent it, the      *)
(* summary the candidate's text verbatim.                                  *)
C2_SuccessIsUrlAndSummary ==
    (Done /\ IsSummarizePost /\ UrlNonEmpty /\ Answered2xx(fetchRaw)
          /\ AnsweredWithCandidateText(summaryRaw)) =>
        /\ pc = "responded"
        /\ Len(responses) = 1
        /\ responses[1].status = 200
        /\ ~responses[1].empty
        /\ DOMAIN responses[1].json = {"url", "summary"}
        /\ responses[1].json["url"] = request.body.url.v
        /\ responses[1].json["summary"] = summaryRaw.body.json.text

C2_Witness ==
    /\ pc = "responded"
    /\ variant = "server"
    /\ request.body.url = JsStr("http://example.com/page-with-html")
    /\ fetchRaw.status = 200
    /\ fetchRaw.body.label = "hello.html"
    /\ AnsweredWithCandidateText(summaryRaw)
    /\ responses[1].json["summary"] = "A page."

(* C3.  At most one content fetch and at most one summarization call are   *)
(* issued per request; the summarization call is issued only after the     *)
(* content fetch has answered 2xx and the prompt's content is in place,    *)
(* never while the fetch is pending, and never after a failed fetch.       *)
C3_SequentialNoRetry ==
    /\ fetchCalls <= 1
    /\ summaryCalls <= 1
    /\ pc = "awaitFetch" => summaryCalls = 0 /\ fetchCalls = 1
    /\ summaryCalls > 0 =>
          /\ fetchCalls = 1
          /\ Answered2xx(fetchRaw)
          /\ sentPrompt = Instruction \o mainContent
    /\ (AnsweredHttpFailure(fetchRaw) \/ NetworkFailure(fetchRaw)) => summaryCalls = 0
    /\ (AnsweredHttpFailure(summaryRaw) \/ NetworkFailure(summaryRaw)) =>
          Done /\ summaryCalls = 1 /\ fetchCalls = 1

C3_Witness ==
    /\ Done
    /\ fetchCalls = 1
    /\ summaryCalls = 1
    /\ Answered2xx(fetchRaw)
    /\ NetworkFailure(summaryRaw)

(* C4.  When the content fetch or the summarization call fails, the        *)
(* response status is the upstream status for an HTTP-level failure and    *)
(* 500 for a network-level failure.                                        *)
(* Fails: the server's catch block always answers 500 (line 452).          *)
C4_UpstreamStatusReported ==
    (pc = "responded" /\ fetchCalls = 1) =>
        LET failed == IF summaryCalls = 1 THEN summaryRaw ELSE fetchRaw IN
        /\ AnsweredHttpFailure(failed) => responses[1].status = failed.status
        /\ NetworkFailure(failed) => responses[1].status = 500

(* C5.  A POST whose body is not valid JSON is answered 400 with an error  *)
(* payload, and no outbound call is made.                                  *)
(* Fails: the function handler parses inside its try block (line 106), so  *)
(* the SyntaxError reaches the catch block, which answers 500.             *)
C5_InvalidJsonIs400 ==
    (Done /\ IsSummarizePost /\ request.body.parse = "SyntaxError") =>
        /\ pc = "responded"
        /\ Len(responses) = 1
        /\ responses[1].status = 400
        /\ IsErrorReply(responses[1])
        /\ NoOutboundCall

(* C6, as stated.  In the function handler without GEMINI_API_KEY, every   *)
(* POST with a non-empty url is answered 500 with an error payload,        *)
(* whatever the content fetch did, and no summarization call is issued.    *)
(* Fails: the fetch comes before the credential check (lines 119, 143), so *)
(* a fetch that fails is reported as a fetch failure.                      *)
C6_AlwaysIs500 ==
    (variant = "function" /\ ~apiKeySet /\ pc = "responded" /\ IsSummarizePost
        /\ UrlNonEmpty) =>
        /\ responses[1].status = 500
        /\ IsErrorReply(responses[1])
        /\ summaryCalls = 0

(* C6, amended.  In the function handler without GEMINI_API_KEY, no        *)
(* summarization call is ever issued, and every POST with a non-empty url  *)
(* whose content fetch answers 2xx is answered 500 with an error payload.  *)
C6_Is500AfterFetch ==
    (variant = "function" /\ ~apiKeySet) =>
        /\ summaryCalls = 0
        /\ pc # "awaitSummary"
        /\ (Done /\ IsSummarizePost /\ UrlNonEmpty /\ Answered2xx(fetchRaw)) =>
              /\ pc = "responded"
              /\ Len(responses) = 1
              /\ responses[1].status = 500
              /\ IsErrorReply(responses[1])

C6_Witness ==
    /\ variant = "function"
    /\ ~apiKeySet
    /\ pc = "responded"
    /\ UrlNonEmpty
    /\ fetchRaw.status = 200
    /\ fetchRaw.body.label = "hello.html"
    /\ responses[1].status = 500
    /\ responses[1].json["error"] = "GEMINI_API_KEY environment variable is not set"

(* C7.  Every failure of an accepted POST (an HTTP-level or network-level  *)
(* failure of either outbound call, or a 2xx summarization answer without  *)
(* the candidates nesting) ends in exactly one response, a JSON error      *)
(* object without a summary; the handler never ends by rejecting.          *)
(* Fails: in the function handler the logging of line 195 throws on a      *)
(* network-level failure, inside the catch block.                          *)
C7_FailureIsOneErrorReply ==
    (Done /\ fetchCalls = 1 /\
        ( \/ AnsweredHttpFailure(fetchRaw) \/ NetworkFailure(fetchRaw)
          \/ AnsweredHttpFailure(summaryRaw) \/ NetworkFailure(summaryRaw)
          \/ summaryCalls = 1 /\ AnsweredWithoutCandidates(summaryRaw) )) =>
        /\ pc = "responded"
        /\ Len(responses) = 1
        /\ IsErrorReply(responses[1])

(* C8.  Every summarization call carries the fixed instruction followed by *)
(* the normalized text of the fetched body, never the raw body.  Stated    *)
(* for bodies that makeRequest hands on as text.                           *)
(* Fails: the server passes the fetched text on as it is (line 408).       *)
C8_PromptIsNormalized ==
    (summaryCalls = 1 /\ ~IsJsonContentType(fetchRaw.ctype)) =>
        sentPrompt = Instruction \o Normalize(fetchRaw.body.chars)

(* C9.  An OPTIONS request to any route is answered 204 with an empty body *)
(* and Access-Control-Allow-Origin: *, with no outbound call; and every    *)
(* response on every return path carries Access-Control-Allow-Origin: *.   *)
C9_CorsOnEveryReply ==
    /\ \A i \in 1..Len(responses) : AllowsAnyOrigin(responses[i])
    /\ (pc # "idle" /\ request.method = "OPTIONS") =>
          /\ pc = "responded"
          /\ Len(responses) = 1
          /\ responses[1].status = 204
          /\ responses[1].empty
          /\ NoOutboundCall

C9_Witness ==
    /\ variant = "server"
    /\ request.method = "OPTIONS"
    /\ request.path = "/other"
    /\ pc = "responded"
    /\ responses[1].status = 204
    /\ AllowsAnyOrigin(responses[1])

(* C10.  The normalizer is idempotent: normalizing its own output changes  *)
(* nothing, also when the first pass truncated and when "<" and ">" are    *)
(* unbalanced or nested.                                                   *)
C10_NormalizeIdempotent ==
    nStep = 2 => nTwice = nOnce

C10_Witness ==
    /\ nStep = 2
    /\ nIn = <<">", "<", "a", "a">>
    /\ nLimit = 2
    /\ nOnce = <<">", "<", ".", ".", ".">>

(* C11.  The truncation step: a text longer than 10,000 characters (one   *)
(* of 10,001 in particular) becomes exactly its first 10,000 characters    *)
(* followed by "...", 10,003 characters in all; a text of 10,000           *)
(* characters or fewer is left unchanged; so the result never exceeds      *)
(* 10,003 characters.                                                      *)
C11_TruncationStep ==
    nStep = 1 =>
        /\ Len(nIn) > 10000 =>
              /\ Len(nOnce) = 10003
              /\ \A i \in 1..10000 : nOnce[i] = nIn[i]
              /\ \A i \in 10001..10003 : nOnce[i] = "."
        /\ Len(nIn) <= 10000 => nOnce = nIn
        /\ Len(nOnce) <= 10003

C11_Witness ==
    /\ nStep = 1
    /\ Len(nIn) = 10001
    /\ nIn[9999] = "b"
    /\ nIn[10001] = "a"
    /\ Len(nOnce) = 10003
    /\ nOnce[9999] = "b"
    /\ nOnce[10001] = "."

====
